---- MODULE Spec2Model ----
(***************************************************************************)
(* Model of the table-of-contents subsystem of jupyter_book:               *)
(*   - the Sphinx extension in jupyter_book/toc.py (update_indexname on    *)
(*     config-inited, add_toctree on doctree-read, find_name), and         *)
(*   - the `jb toc` command (build_toc, _find_content_structure,           *)
(*     _content_path_to_yaml).                                             *)
(*                                                                         *)
(* Python values are tagged records: field t is the dynamic type           *)
(* ("None", "str", "list", "dict", "raise" for a propagating exception).   *)
(* A path string is Str(parts, exts): the components of the path, the last *)
(* one being the stem of the final component, and the suffixes of the      *)
(* final component ("guide/a.tar.md" is Str(<<"guide","a">>,               *)
(* <<".tar",".md">>)).                                                     *)
(***************************************************************************)
EXTENDS Integers, Sequences, FiniteSets, TLC

VARIABLES
    cmd,            \* which command this process runs: "build" or "toc"
    phase,          \* position of the command
    globaltoc_path, \* app.config["globaltoc_path"]: "" or the path of _toc.yml
    toc_file,       \* what yaml.safe_load reads from the file at globaltoc_path
    globaltoc,      \* app.config["globaltoc"]
    master_doc,     \* app.config["master_doc"]
    docname,        \* app.env.docname of the page last handed to add_toctree
    page,           \* what find_name returned to add_toctree for that page
    doctree,        \* the sections of that page's document, with what was appended
    exc,            \* the exception that ended the last handler, or "" for none
    fs,             \* the content folder given to `jb toc`
    split_char,     \* --filename_split_char
    skip_text,      \* --skip_text as handed to build_toc
    structure       \* what _find_content_structure returned to build_toc

vars == <<cmd, phase, globaltoc_path, toc_file, globaltoc, master_doc, docname,
          page, doctree, exc, fs, split_char, skip_text, structure>>

buildVars == <<globaltoc_path, toc_file, globaltoc, master_doc, docname, page, doctree>>
tocVars == <<fs, split_char, skip_text, structure>>

-----------------------------------------------------------------------------
(* Python values *)

None == [t |-> "None"]
Str(parts, exts) == [t |-> "str", parts |-> parts, exts |-> exts]
List(s) == [t |-> "list", v |-> s]
Dict(d) == [t |-> "dict", d |-> d]
Raise(e) == [t |-> "raise", exc |-> e]

\* dict.get(key, default)
Get(dict, key, default) == IF key \in DOMAIN dict.d THEN dict.d[key] ELSE default

\* dict[key] = value
SetItem(dict, key, value) ==
    Dict([k \in DOMAIN dict.d \cup {key} |-> IF k = key THEN value ELSE dict.d[k]])

\* a == b for two Python values
PyEq(a, b) == a.t = b.t /\ a = b

SeqsUpTo(S, n) == UNION {[1..k -> S] : k \in 0..n}

-----------------------------------------------------------------------------
(* pathlib / os.path / sphinx.util as toc.py uses them *)

\* Path(p).with_suffix(""): the last suffix of the final component is removed
with_suffix(p) ==
    [p EXCEPT !.exts = IF Len(@) = 0 THEN @ ELSE SubSeq(@, 1, Len(@) - 1)]

no_suffix(path) == IF path.t = "str" THEN with_suffix(path) ELSE path

\* Path(p).parent, as the sequence of its components
parent(p) == SubSeq(p.parts, 1, Len(p.parts) - 1)

\* the components of a path, each with its suffixes
Comps(p) ==
    [k \in 1..Len(p.parts) |->
        [name |-> p.parts[k], exts |-> IF k = Len(p.parts) THEN p.exts ELSE <<>>]]

DirComps(dirs) == [k \in 1..Len(dirs) |-> [name |-> dirs[k], exts |-> <<>>]]

FromComps(c) ==
    Str([k \in 1..Len(c) |-> c[k].name], IF Len(c) = 0 THEN <<>> ELSE c[Len(c)].exts)

Min(a, b) == IF a <= b THEN a ELSE b

\* length of the longest common prefix of two component sequences
CommonLen(a, b) ==
    LET same == {k \in 0..Min(Len(a), Len(b)) : SubSeq(a, 1, k) = SubSeq(b, 1, k)}
    IN  CHOOSE k \in same : \A j \in same : j <= k

\* os.path.relpath(path, start) for two paths relative to the same directory
relpath(path, start) ==
    IF path.t # "str" THEN Raise("ValueError")    \* `if not path`: no path specified
    ELSE LET p == Comps(path)
             s == DirComps(start)
             i == CommonLen(s, p)
             ups == [k \in 1..(Len(s) - i) |-> [name |-> "..", exts |-> <<>>]]
             rel == ups \o SubSeq(p, i + 1, Len(p))
         IN  IF Len(rel) = 0 THEN Str(<<".">>, <<>>) ELSE FromComps(rel)

\* posixpath.normpath of an absolute path given by its components
RECURSIVE normpath(_, _)
normpath(comps, stack) ==
    IF Len(comps) = 0 THEN stack
    ELSE LET c == Head(comps) IN
         IF c.name = "." /\ c.exts = <<>> THEN normpath(Tail(comps), stack)
         ELSE IF c.name = ".." /\ c.exts = <<>>
              THEN normpath(Tail(comps),
                            IF Len(stack) = 0 THEN stack
                            ELSE SubSeq(stack, 1, Len(stack) - 1))
              ELSE normpath(Tail(comps), Append(stack, c))

\* the same, forgetting the document the path is relative to
docname_join_relative(base, other) == other

\* sphinx.util.docname_join(basedocname, docname):
\* posixpath.normpath(posixpath.join("/" + basedocname, "..", docname))[1:]
docname_join(base, other) ==
    FromComps(normpath(Comps(base) \o <<[name |-> "..", exts |-> <<>>]>> \o Comps(other),
                       <<>>))

\* env.path2doc(filename): the docname of a source file
path2doc(source) == with_suffix(source)

-----------------------------------------------------------------------------
(* toc.py: find_name *)

RECURSIVE find_name(_, _), find_name_from(_, _, _)

\* find_name(pages, name): the page found, None, or the exception raised
find_name(pages, name) ==
    LET ps == IF pages.t = "dict" THEN List(<<pages>>) ELSE pages IN
    IF ps.t # "list" THEN Raise("TypeError")      \* `for page in None`
    ELSE find_name_from(ps.v, 1, name)

\* the loop `for page in pages`, from its i-th iteration on
find_name_from(pages, i, name) ==
    IF i > Len(pages) THEN None
    ELSE LET pg == pages[i] IN
         IF PyEq(no_suffix(Get(pg, "file", None)), name) THEN pg
         ELSE LET sections == Get(pg, "pages", List(<<>>))
                  sub == find_name(sections, name)
              IN  IF sub.t # "None" THEN sub
                  ELSE find_name_from(pages, i + 1, name)

-----------------------------------------------------------------------------
(* toc.py: update_indexname, the config-inited handler *)

\* the value of toc at line 116, or the exception raised before it
normalized_toc(toc) ==
    IF toc.t = "list"
    THEN IF Len(toc.v) = 0 THEN Raise("IndexError")
         ELSE LET toc_updated == toc.v[1] IN
              IF Len(toc.v) > 1
              THEN SetItem(toc_updated, "pages", List(Tail(toc.v)))
              ELSE toc_updated
    ELSE toc

update_indexname ==
    /\ cmd = "build"
    /\ phase = "start"
    /\ IF globaltoc_path = ""
       THEN /\ phase' = "configured"
            /\ UNCHANGED <<globaltoc, master_doc, exc>>
       ELSE LET toc == normalized_toc(toc_file) IN
            IF toc.t = "raise"
            THEN /\ phase' = "failed"
                 /\ exc' = toc.exc
                 /\ UNCHANGED <<globaltoc, master_doc>>
            ELSE /\ globaltoc' = toc
                 /\ IF "file" \in DOMAIN toc.d
                    THEN /\ master_doc' = no_suffix(toc.d.file)
                         /\ phase' = "configured"
                         /\ exc' = ""
                    ELSE /\ phase' = "failed"
                         /\ exc' = "KeyError"
                         /\ UNCHANGED master_doc
    /\ UNCHANGED <<cmd, globaltoc_path, toc_file, docname, page, doctree>>
    /\ UNCHANGED tocVars

-----------------------------------------------------------------------------
(* toc.py: add_toctree, the doctree-read handler *)

\* a docutils section: its subsections and the other nodes appended to it
Section(sub) == [sub |-> sub, nodes |-> <<>>]

\* the top-level sections only, without descending into any of them
traverse_top_level(sections, prefix, k) ==
    [i \in 1..Len(sections) |-> <<i>>]

\* doctree.traverse(nodes.section): the sections in document order, each given
\* by its address (the indices leading to it from the document)
RECURSIVE traverse(_, _, _)
traverse(sections, prefix, k) ==
    IF k > Len(sections) THEN <<>>
    ELSE <<Append(prefix, k)>>
         \o traverse(sections[k].sub, Append(prefix, k), 1)
         \o traverse(sections, prefix, k + 1)

\* section.append(node) on the section at an address
RECURSIVE append_at(_, _, _)
append_at(sections, addr, node) ==
    LET k == Head(addr) IN
    IF Len(addr) = 1
    THEN [sections EXCEPT ![k].nodes = Append(@, node)]
    ELSE [sections EXCEPT ![k].sub = append_at(@, Tail(addr), node)]

\* lines 57-65: the (title, path) pairs of the page's children, each path made
\* relative to the folder of the page; or the exception raised
sections_of(pg) ==
    LET pages == Get(pg, "pages", List(<<>>)) IN
    IF pages.t # "list" THEN Raise("TypeError")   \* `for ii in None`
    ELSE LET path_parent_folder == parent(pg.d.file)
             rel == [ii \in 1..Len(pages.v) |->
                        <<Get(pages.v[ii], "title", None),
                          relpath(Get(pages.v[ii], "file", None), path_parent_folder)>>]
         IN  IF \E ii \in 1..Len(rel) : rel[ii][2].t = "raise"
             THEN Raise("ValueError")
             ELSE List(rel)

\* lines 69-96: the toctree node built for the page
toctree(doc, pg, sections) ==
    LET entries == [ii \in 1..Len(sections) |->
                       <<sections[ii][1], docname_join(doc, sections[ii][2])>>]
    IN  [parent |-> doc,
         includefiles |-> [ii \in 1..Len(entries) |-> entries[ii][2]],
         maxdepth |-> -1, caption |-> FALSE, glob |-> FALSE, hidden |-> TRUE,
         includehidden |-> FALSE, titlesonly |-> FALSE, rawentries |-> "",
         entries |-> entries,
         numbered |-> "numbered" \in DOMAIN pg.d]

\* the handler on the document read from `source`, parsed into `tree`;
\* env.doc2path(env.docname, base=None) is that source file
add_toctree(source, tree) ==
    /\ cmd = "build"
    /\ phase = "configured"
    /\ docname' = path2doc(source)
    /\ IF globaltoc_path = ""
       THEN /\ page' = None
            /\ doctree' = tree
            /\ exc' = ""
            /\ phase' = "read"
       ELSE LET doc == path2doc(source)
                path == source
                pg == find_name(globaltoc, no_suffix(path))
            IN
            /\ page' = pg
            /\ IF pg.t = "raise"
               THEN /\ exc' = pg.exc
                    /\ phase' = "failed"
                    /\ doctree' = tree
               ELSE IF pg.t = "None"
               THEN /\ exc' = "FileNotFoundError"
                    /\ phase' = "failed"
                    /\ doctree' = tree
               ELSE LET sections == sections_of(pg) IN
                    IF sections.t = "raise"
                    THEN /\ exc' = sections.exc
                         /\ phase' = "failed"
                         /\ doctree' = tree
                    ELSE IF Len(sections.v) = 0
                    THEN /\ exc' = ""
                         /\ doctree' = tree
                         /\ phase' = "read"
                    ELSE LET doc_sections == traverse(tree, <<>>, 1) IN
                         IF Len(doc_sections) = 0
                         THEN /\ exc' = "IndexError"
                              /\ phase' = "failed"
                              /\ doctree' = tree
                         ELSE /\ exc' = ""
                              /\ doctree' = append_at(tree, doc_sections[Len(doc_sections)],
                                                      toctree(doc, pg, sections.v))
                              /\ phase' = "read"
    /\ UNCHANGED <<cmd, globaltoc_path, toc_file, globaltoc, master_doc>>
    /\ UNCHANGED tocVars

\* Sphinx goes on to the next document, with the same configuration
next_document ==
    /\ cmd = "build"
    /\ phase = "read"
    /\ phase' = "configured"
    /\ docname' = None
    /\ page' = None
    /\ doctree' = <<>>
    /\ UNCHANGED <<cmd, globaltoc_path, toc_file, globaltoc, master_doc, exc>>
    /\ UNCHANGED tocVars

-----------------------------------------------------------------------------
(* the persisted tables of contents and the documents the build is run on *)

MaxPages == 2       \* longest `pages` list (and longest tail of a top-level list)
MaxSections == 2    \* most top-level sections of a document

Page(file) == Dict([file |-> file])
Divider == Dict([divider |-> TRUE])
Header == Dict([header |-> Str(<<"Part">>, <<>>)])
Intro == Dict([file |-> Str(<<"intro">>, <<>>), title |-> Str(<<"Introduction">>, <<>>)])
GuideA == Page(Str(<<"guide", "a">>, <<".md">>))

\* the lists of up to n entries of S that name no entry twice
ListsOf(S, n) ==
    {s \in SeqsUpTo(S, n) : \A i, j \in DOMAIN s : s[i] = s[j] => i = j}

\* the values a `pages` key can have: null or a list
PagesValues(S) == {None} \cup {List(s) : s \in ListsOf(S, MaxPages)}

\* an entry without a `pages` key, and with each value of it
WithPages(entry, S) == {entry} \cup {SetItem(entry, "pages", v) : v \in PagesValues(S)}

IndexEntries ==
    LET index == Page(Str(<<"index">>, <<".md">>)) IN
    {index, SetItem(index, "numbered", TRUE), SetItem(index, "numbered", FALSE)}

Firsts == UNION {WithPages(e, {Intro, Divider, GuideA}) : e \in IndexEntries}

Sections == WithPages(Page(Str(<<"guide", "index">>, <<>>)), {GuideA, Intro})

TopLeaves == {Page(Str(<<"intro">>, <<".md">>)), Header}

\* the entries after the first one: at most one of them has children of its own
Rests ==
    {s \in ListsOf(Sections \cup TopLeaves, MaxPages) :
        Cardinality({i \in DOMAIN s : s[i] \in Sections}) <= 1}

TocFiles ==
    {List(<<>>)} \cup Firsts \cup {List(<<f>> \o r) : f \in Firsts, r \in Rests}

\* the source files of the documents Sphinx reads
Sources ==
    {Str(<<"index">>, <<".md">>), Str(<<"intro">>, <<".ipynb">>),
     Str(<<"guide", "index">>, <<".md">>), Str(<<"other">>, <<".md">>)}

\* documents of up to MaxSections top-level sections, the last of them
\* without subsections, with one, or with two of which the second has its own
DocTrees ==
    {<<>>} \cup
    {[i \in 1..k |-> IF i = k THEN last ELSE Section(<<>>)] :
        k \in 1..MaxSections,
        last \in {Section(<<>>), Section(<<Section(<<>>)>>),
                  Section(<<Section(<<>>), Section(<<Section(<<>>)>>)>>)}}

-----------------------------------------------------------------------------
(* jb build *)

InitBuild ==
    /\ cmd = "build"
    /\ phase = "start"
    /\ \/ globaltoc_path = "" /\ toc_file = None
       \/ globaltoc_path = "_toc.yml" /\ toc_file \in TocFiles
    /\ globaltoc = None
    /\ master_doc = None
    /\ docname = None
    /\ page = None
    /\ doctree = <<>>
    /\ exc = ""
    /\ fs = None
    /\ split_char = ""
    /\ skip_text = None
    /\ structure = None

NextBuild ==
    \/ update_indexname
    \/ \E source \in Sources, tree \in DocTrees : add_toctree(source, tree)
    \/ next_document

SpecBuild == InitBuild /\ [][NextBuild]_vars

-----------------------------------------------------------------------------
(* jb toc: the content folder *)

\* a directory entry as Path.iterdir() yields it: a file with the suffixes of
\* its name, or a folder with its own listing in the order iterdir() gives
File(name, exts) == [t |-> "file", name |-> name, exts |-> exts]
Folder(name, entries) == [t |-> "dir", name |-> name, exts |-> <<>>, entries |-> entries]

\* Path.suffix
suffix(e) == IF Len(e.exts) = 0 THEN "" ELSE e.exts[Len(e.exts)]

\* utils.SUPPORTED_FILE_SUFFIXES: the allow-list of content extensions
SUPPORTED_FILE_SUFFIXES == {".md", ".ipynb", ".rst"}

\* the characters of the names used below, cut where a split character or a
\* skip text can begin or end
Tokens(name) ==
    CASE name = "my-page" -> <<"my", "-", "page">>
      [] name = "part_two" -> <<"part", "_", "two">>
      [] OTHER -> <<name>>

\* the split of a sequence of tokens at every occurrence of a character
RECURSIVE split(_, _, _)
split(tokens, char, word) ==
    IF Len(tokens) = 0 THEN <<word>>
    ELSE IF Head(tokens) = char
         THEN <<word>> \o split(Tail(tokens), char, <<>>)
         ELSE split(Tail(tokens), char, Append(word, Head(tokens)))

\* utils._filename_to_title(filename, split_char): the split character is
\* replaced by spaces; the title is given by its words, the capitalization
\* policy left aside
filename_to_title(filename, char) == split(Tokens(filename.name) \o filename.exts, char, <<>>)

\* the path of the scanned folder as given on the command line
RootName == "book"

\* `text in str(path)` for a path below the scanned folder
text_in(text, path) ==
    \E k \in 1..Len(path.parts) :
        \E j \in 1..Len(Tokens(path.parts[k])) : Tokens(path.parts[k])[j] = text

-----------------------------------------------------------------------------
(* toc.py: _content_path_to_yaml, _find_content_structure, build_toc *)

\* _content_path_to_yaml(path, root_path, split_char), path given relative to
\* root_path
content_path_to_yaml(path, char) ==
    LET p == with_suffix(path)
        name == [name |-> p.parts[Len(p.parts)], exts |-> p.exts]
        folder == [name |-> IF Len(p.parts) = 1 THEN RootName ELSE p.parts[Len(p.parts) - 1],
                   exts |-> <<>>]
        title == IF name.name = "index" /\ name.exts = <<>>
                 THEN filename_to_title(folder, char)
                 ELSE filename_to_title(name, char)
    IN  Dict([file |-> with_suffix(p), title |-> title])

EntryPath(path, e) == Str(Append(path, e.name), e.exts)

Remove(seq, i) == SubSeq(seq, 1, i - 1) \o SubSeq(seq, i + 1, Len(seq))

\* lines 154-159: the loop that pops the index page while it enumerates the
\* list, at the ii-th element the iterator yields (counted from 1)
RECURSIVE pop_index(_, _, _)
pop_index(content_files, ii, first_content) ==
    IF ii > Len(content_files)
    THEN IF first_content = None
         THEN [first_content |-> Head(content_files), content_files |-> Tail(content_files)]
         ELSE [first_content |-> first_content, content_files |-> content_files]
    ELSE LET ifile == content_files[ii] IN
         IF with_suffix(ifile).name = "index" /\ with_suffix(ifile).exts = <<>>
         THEN pop_index(Remove(content_files, ii), ii + 1, ifile)
         ELSE pop_index(content_files, ii + 1, first_content)

any_skip(skip, path) == \E k \in 1..Len(skip) : text_in(skip[k], path)

RECURSIVE find_content_structure(_, _, _, _), scan_folders(_, _, _, _, _, _)

\* _find_content_structure(path, root_folder, split_char, skip_text) on the
\* folder `dir` found at `path` below the root; skip_list is the list passed
\* in (None for no list). Gives the value returned and the list as the
\* appends leave it.
find_content_structure(dir, path, char, skip_list) ==
    LET skip == Append(IF skip_list.t = "None" THEN <<>> ELSE skip_list.v,
                       ".ipynb_checkpoints")
        content_files == SelectSeq(dir.entries, LAMBDA ii : suffix(ii) \in SUPPORTED_FILE_SUFFIXES)
    IN  IF Len(content_files) = 0 THEN [out |-> None, skip |-> skip]
        ELSE LET popped == pop_index(content_files, 1, None)
                 parent_page == content_path_to_yaml(EntryPath(path, popped.first_content), char)
                 kept == SelectSeq(popped.content_files,
                                   LAMBDA f : ~any_skip(skip, EntryPath(path, f)))
                 \* line 167 passes no split_char: the default "_" applies
                 pages == [k \in 1..Len(kept) |->
                              content_path_to_yaml(EntryPath(path, kept[k]), "_")]
                 folders == SelectSeq(dir.entries, LAMBDA ii : ii.t = "dir")
                 done == scan_folders(folders, 1, path, char, skip, pages)
             IN  [out |-> IF Len(done.pages) = 0 THEN parent_page
                          ELSE SetItem(parent_page, "pages", List(done.pages)),
                  skip |-> done.skip]

\* lines 171-178: the loop over the folders, from its i-th iteration on
scan_folders(folders, i, path, char, skip, pages) ==
    IF i > Len(folders) THEN [pages |-> pages, skip |-> skip]
    ELSE IF any_skip(skip, EntryPath(path, folders[i]))
         THEN scan_folders(folders, i + 1, path, char, skip, pages)
         ELSE LET folder_out == find_content_structure(folders[i], Append(path, folders[i].name),
                                                       char, List(skip))
              IN  scan_folders(folders, i + 1, path, char, folder_out.skip,
                               IF folder_out.out.t = "None" THEN pages
                               ELSE Append(pages, folder_out.out))

\* yaml.safe_dump(structure): the text of the _toc.yml that holds structure
safe_dump(value) == [t |-> "yaml", of |-> value]

\* the `jb toc` command: build_toc(path, filename_split_char, skip_text) and
\* the write of _toc.yml
toc ==
    /\ cmd = "toc"
    /\ phase = "start"
    /\ IF skip_text.t = "str"
       THEN \* line 139: a str has no append
            /\ exc' = "AttributeError"
            /\ phase' = "failed"
            /\ UNCHANGED <<skip_text, structure, toc_file>>
       ELSE LET found == find_content_structure(fs, <<>>, split_char, skip_text) IN
            /\ structure' = found.out
            /\ skip_text' = IF skip_text.t = "None" THEN None ELSE List(found.skip)
            /\ IF found.out.t = "None"
               THEN /\ exc' = "ValueError"
                    /\ phase' = "failed"
                    /\ UNCHANGED toc_file
               ELSE /\ exc' = ""
                    /\ phase' = "written"
                    /\ toc_file' = safe_dump(found.out)
    /\ UNCHANGED <<cmd, globaltoc_path, globaltoc, master_doc, docname, page, doctree>>
    /\ UNCHANGED <<fs, split_char>>

-----------------------------------------------------------------------------
(* the content folders jb toc is run on *)

MaxEntries == 3     \* most entries of the scanned folder
MaxSubEntries == 2  \* most entries of a folder inside it

ContentFiles ==
    {File("index", <<".md">>), File("index", <<".ipynb">>), File("aaa", <<".md">>),
     File("my-page", <<".md">>), File("readme", <<".txt">>)}

SubFiles ==
    {File("index", <<".md">>), File("notes", <<".v2", ".md">>), File("my-page", <<".md">>)}

\* the listings of up to n entries of S, no name in them twice
Listings(S, n) ==
    {s \in SeqsUpTo(S, n) :
        \A i, j \in DOMAIN s : (s[i].name = s[j].name /\ s[i].exts = s[j].exts) => i = j}

SubFolders ==
    {Folder(name, l) : name \in {"guide", "part_two"}, l \in Listings(SubFiles, MaxSubEntries)}
    \cup {Folder(".ipynb_checkpoints", <<File("aaa", <<".md">>)>>)}

ContentFolders ==
    {Folder(RootName, l) : l \in Listings(ContentFiles \cup SubFolders, MaxEntries)}

SplitChars == {"_", "-"}

SkipTexts == {None, List(<<"page">>), Str(<<"page">>, <<>>)}

InitToc ==
    /\ cmd = "toc"
    /\ phase = "start"
    /\ fs \in ContentFolders
    /\ split_char \in SplitChars
    /\ skip_text \in SkipTexts
    /\ structure = None
    /\ exc = ""
    /\ globaltoc_path = ""
    /\ toc_file = None
    /\ globaltoc = None
    /\ master_doc = None
    /\ docname = None
    /\ page = None
    /\ doctree = <<>>

NextToc == toc

SpecToc == InitToc /\ [][NextToc]_vars

-----------------------------------------------------------------------------
(* either command *)

Init == InitBuild \/ InitToc

Next == NextBuild \/ NextToc

Spec == Init /\ [][Next]_vars

-----------------------------------------------------------------------------
(* what the claims about jb build speak of *)

\* update_indexname has loaded a table of contents
Loaded == cmd = "build" /\ globaltoc_path # "" /\ globaltoc.t = "dict"

\* add_toctree has searched the table of contents for the current document
Searched == cmd = "build" /\ globaltoc_path # "" /\ docname.t = "str"

\* the children an entry declares: the list under `pages`, none when the key
\* is missing or null
DeclaredPages(entry) ==
    LET v == Get(entry, "pages", None) IN IF v.t = "list" THEN v.v ELSE <<>>

IsPage(entry) == "file" \in DOMAIN entry.d

RECURSIVE Flatten(_)
Flatten(seqs) == IF Len(seqs) = 0 THEN <<>> ELSE Head(seqs) \o Flatten(Tail(seqs))

\* the entries of a tree in depth-first pre-order
RECURSIVE Preorder(_)
Preorder(entry) ==
    <<entry>> \o Flatten([i \in 1..Len(DeclaredPages(entry)) |->
                             Preorder(DeclaredPages(entry)[i])])

\* the positions in a sequence of entries of the pages whose path is `name`
Matches(entries, name) ==
    {i \in 1..Len(entries) :
        /\ IsPage(entries[i])
        /\ entries[i].d.file.parts = name.parts
        /\ \/ entries[i].d.file.exts = name.exts
           \/ /\ Len(entries[i].d.file.exts) = Len(name.exts) + 1
              /\ SubSeq(entries[i].d.file.exts, 1, Len(name.exts)) = name.exts}

\* the nodes appended to the sections of a document, in document order
RECURSIVE AllNodes(_)
AllNodes(sections) ==
    Flatten([k \in 1..Len(sections) |-> sections[k].nodes \o AllNodes(sections[k].sub)])

\* add_toctree has added a navigation node to the current document
Injected == Searched /\ Len(AllNodes(doctree)) > 0

Nav == AllNodes(doctree)[1]

-----------------------------------------------------------------------------

\* C1: loading a persisted TOC whose top level is a list of two or more
\* entries yields a tree whose root is the first entry and whose children are
\* the children the first entry declares under `pages`, in their order,
\* followed by the remaining top-level entries in their order; a one-element
\* list or a bare mapping is used unchanged.
C1_ListKeepsDeclaredChildren ==
    Loaded =>
        IF toc_file.t = "list" /\ Len(toc_file.v) >= 2
        THEN LET first == toc_file.v[1] IN
             /\ \A k \in DOMAIN first.d \ {"pages"} :
                    k \in DOMAIN globaltoc.d /\ globaltoc.d[k] = first.d[k]
             /\ DeclaredPages(globaltoc) = DeclaredPages(first) \o Tail(toc_file.v)
        ELSE IF toc_file.t = "list"
             THEN globaltoc = toc_file.v[1]
             ELSE globaltoc = toc_file

\* C5: find_name returns the first entry in depth-first pre-order whose
\* extension-stripped `file` equals the name: None when no entry matches, the
\* matching entry when one matches, the pre-order-first one when several do;
\* dividers and headers never match.
C5_FirstInPreorder ==
    Searched =>
        LET entries == Preorder(globaltoc)
            hits == Matches(entries, docname)
        IN  IF hits = {}
            THEN page = None
            ELSE page = entries[CHOOSE i \in hits : \A j \in hits : i <= j]

\* C6: an entry whose `pages` is missing or null has no children: find_name
\* searches past it without raising, and add_toctree on such a page adds no
\* navigation node and raises nothing.
C6_NullPagesIsNoChildren ==
    Searched =>
        /\ page.t # "raise"
        /\ (page.t = "dict" /\ Get(page, "pages", None) = None) =>
               exc = "" /\ Len(AllNodes(doctree)) = 0

\* C7: when the children of the page include a divider or a header, the
\* marker is passed through without a path being computed for it and the
\* injection completes, the page children around it listed in order.
C7_MarkersPassThrough ==
    (/\ Searched
     /\ page.t = "dict"
     /\ \E i \in 1..Len(DeclaredPages(page)) : ~IsPage(DeclaredPages(page)[i])
     /\ Len(doctree) > 0) =>
        /\ exc = ""
        /\ Injected
        /\ Len(Nav.entries) = Len(DeclaredPages(page))
        /\ \A i \in 1..Len(DeclaredPages(page)) :
               IF IsPage(DeclaredPages(page)[i])
               THEN Nav.entries[i][2].t = "str"
               ELSE Nav.entries[i][2] = None

\* C8 as claimed: the path of the entry of each page child is the child's
\* `file` relative to the directory containing the current page (not to the
\* content root), and the entries keep the order of the children.
C8_EntriesRelativeToPageFolder ==
    Injected =>
        /\ Len(Nav.entries) = Len(DeclaredPages(page))
        /\ \A i \in 1..Len(DeclaredPages(page)) :
               IsPage(DeclaredPages(page)[i]) =>
                   Nav.entries[i][2] =
                       relpath(DeclaredPages(page)[i].d.file, parent(page.d.file))

\* C8 as amended: the page-relative path of each child is joined back onto
\* the current docname, so the entry path is the child's `file` relative to
\* the content root, and the entries keep the order of the children.
C8_EntriesRelativeToContentRoot ==
    Injected =>
        /\ Len(Nav.entries) = Len(DeclaredPages(page))
        /\ \A i \in 1..Len(DeclaredPages(page)) :
               IsPage(DeclaredPages(page)[i]) =>
                   Nav.entries[i][2] = DeclaredPages(page)[i].d.file

\* a page in a subfolder got a navigation node for a child in that subfolder
C8_Witness ==
    /\ Injected
    /\ Len(page.d.file.parts) > 1
    /\ \E i \in 1..Len(DeclaredPages(page)) :
           /\ IsPage(DeclaredPages(page)[i])
           /\ parent(DeclaredPages(page)[i].d.file) = parent(page.d.file)
           /\ Nav.entries[i][2] = DeclaredPages(page)[i].d.file

\* C9: the navigation node requests numbering exactly when the `numbered`
\* flag of the page's entry is true; `numbered: false` or no `numbered` key
\* gives a node that does not request numbering.
C9_NumberedFollowsFlag ==
    Injected => (Nav.numbered <=> (Get(page, "numbered", FALSE) = TRUE))

\* the address of the section that comes last in document order: the last
\* top-level section, or the last section below it when it has subsections
RECURSIVE LastInDocument(_)
LastInDocument(sections) ==
    LET k == Len(sections) IN
    IF Len(sections[k].sub) = 0 THEN <<k>>
    ELSE <<k>> \o LastInDocument(sections[k].sub)

\* the nodes appended to the section at an address
RECURSIVE NodesAt(_, _)
NodesAt(sections, addr) ==
    IF Len(addr) = 1 THEN sections[Head(addr)].nodes
    ELSE NodesAt(sections[Head(addr)].sub, Tail(addr))

\* C11 as claimed: the document gets exactly one navigation node, and the
\* section it is appended to is the last top-level section of the page, also
\* when that section contains nested subsections.
C11_AppendedToLastTopLevelSection ==
    Injected =>
        /\ Len(AllNodes(doctree)) = 1
        /\ doctree[Len(doctree)].nodes = <<Nav>>

\* C11 as amended: the document gets exactly one navigation node, and the
\* section it is appended to is the last section of the page in document
\* order: the last top-level section when that has no subsections, otherwise
\* the last, innermost section below it.
C11_AppendedToLastSectionInDocument ==
    Injected =>
        /\ Len(AllNodes(doctree)) = 1
        /\ NodesAt(doctree, LastInDocument(doctree)) = <<Nav>>

\* a page with children got its navigation node in a document whose last
\* top-level section has two subsections, the second with one of its own
C11_Witness ==
    /\ Injected
    /\ Len(doctree[Len(doctree)].sub) = 2
    /\ LastInDocument(doctree) = <<Len(doctree), 2, 1>>
    /\ NodesAt(doctree, <<Len(doctree), 2, 1>>) = <<Nav>>
    /\ doctree[Len(doctree)].nodes = <<>>

-----------------------------------------------------------------------------
(* what the claims about jb toc speak of *)

\* build_toc has scanned the content folder with a skip_text it can append to
Scanned == cmd = "toc" /\ phase # "start" /\ skip_text.t # "str"

\* the skip texts of the scan
SkipSet ==
    {".ipynb_checkpoints"} \cup
    (IF skip_text.t = "list" THEN {skip_text.v[k] : k \in 1..Len(skip_text.v)} ELSE {})

Skipped(path) == \E text \in SkipSet : text_in(text, path)

Qualifying(dir) ==
    SelectSeq(dir.entries, LAMBDA e : e.t = "file" /\ suffix(e) \in SUPPORTED_FILE_SUFFIXES)

\* the folder at a path below the content folder
RECURSIVE DirAt(_, _)
DirAt(dir, parts) ==
    IF Len(parts) = 0 THEN dir
    ELSE DirAt(CHOOSE e \in {dir.entries[k] : k \in 1..Len(dir.entries)} :
                   e.t = "dir" /\ e.name = Head(parts),
               Tail(parts))

\* a qualifying file in the folder or in a folder below it that is not skipped
RECURSIVE HasContent(_, _)
HasContent(dir, path) ==
    \/ Len(Qualifying(dir)) > 0
    \/ \E k \in 1..Len(dir.entries) :
           /\ dir.entries[k].t = "dir"
           /\ ~Skipped(EntryPath(path, dir.entries[k]))
           /\ HasContent(dir.entries[k], Append(path, dir.entries[k].name))

\* `file` is the path, without its extension, of a file of the content folder
RefersToFile(file) ==
    LET dir == DirAt(fs, parent(file)) IN
    \E k \in 1..Len(dir.entries) :
        /\ dir.entries[k].t = "file"
        /\ Len(dir.entries[k].exts) > 0
        /\ with_suffix(EntryPath(parent(file), dir.entries[k])) = file

\* the anchors of a generated tree: its root, and below an anchor the
\* children that lie in a deeper folder
RECURSIVE AnchorsOf(_)
AnchorsOf(node) ==
    <<node>> \o
    Flatten([i \in 1..Len(DeclaredPages(node)) |->
                IF Len(DeclaredPages(node)[i].d.file.parts) > Len(node.d.file.parts)
                THEN AnchorsOf(DeclaredPages(node)[i])
                ELSE <<>>])

\* the children of an anchor that are files of the anchor's own folder
FileChildren(anchor) ==
    SelectSeq(DeclaredPages(anchor),
              LAMBDA c : Len(c.d.file.parts) = Len(anchor.d.file.parts))

\* the `file` the scan gives to a file of the folder at `path`
FileOf(path, e) == with_suffix(with_suffix(EntryPath(path, e)))

IsIndexFile(e) == e.name = "index" /\ Len(e.exts) = 1

Count(seq, Test(_)) == Len(SelectSeq(seq, Test))

\* the names of the model in alphanumeric (code point) order
Alphanumeric ==
    <<".ipynb_checkpoints", "aaa", "guide", "index", "my-page", "notes", "part_two", "readme">>

Rank(name) == CHOOSE k \in 1..Len(Alphanumeric) : Alphanumeric[k] = name

-----------------------------------------------------------------------------

\* C2: for every tree with a qualifying content file anywhere under the scan
\* root (also when the root folder itself holds none but a folder below it
\* that is not skipped does), the scan returns a root node whose `file`
\* refers to an existing file, and build_toc does not raise "No content
\* files were found".
C2_ContentGivesRoot ==
    (Scanned /\ HasContent(fs, <<>>)) =>
        /\ structure.t = "dict"
        /\ exc # "ValueError"
        /\ RefersToFile(structure.d.file)

\* C3: in every scanned folder that holds a qualifying file named index, for
\* every listing order and any number of qualifying files (several index
\* files included), the anchor is an index file and every other qualifying
\* file whose path has no skip text is exactly once among the anchor's
\* children.
C3_IndexAnchorsAndNoFileDropped ==
    (Scanned /\ structure.t = "dict") =>
        \A a \in 1..Len(AnchorsOf(structure)) :
            LET anchor == AnchorsOf(structure)[a]
                path == parent(anchor.d.file)
                files == Qualifying(DirAt(fs, path))
                wanted == SelectSeq(files, LAMBDA e : ~Skipped(EntryPath(path, e)))
            IN  (\E k \in 1..Len(files) : IsIndexFile(files[k])) =>
                    /\ anchor.d.file = Str(Append(path, "index"), <<>>)
                    /\ \A k \in 1..Len(wanted) :
                           Count(FileChildren(anchor),
                                 LAMBDA c : c.d.file = FileOf(path, wanted[k]))
                           = Count(wanted, LAMBDA e : FileOf(path, e) = FileOf(path, wanted[k]))
                             - (IF IsIndexFile(wanted[k]) THEN 1 ELSE 0)

\* C4: for every scanned folder and every listing order, the children of the
\* anchor are the sibling content files in alphanumeric order of path,
\* followed by the anchors of the folders below in alphanumeric order of
\* folder name; every such anchor comes after every sibling file.
C4_ChildrenInAlphanumericOrder ==
    (Scanned /\ structure.t = "dict") =>
        \A a \in 1..Len(AnchorsOf(structure)) :
            LET anchor == AnchorsOf(structure)[a]
                depth == Len(anchor.d.file.parts)
                children == DeclaredPages(anchor)
                IsFile(c) == Len(c.d.file.parts) = depth
            IN  \A i, j \in 1..Len(children) :
                    i < j =>
                        /\ ~(~IsFile(children[i]) /\ IsFile(children[j]))
                        /\ (IsFile(children[i]) /\ IsFile(children[j])) =>
                               Rank(children[i].d.file.parts[depth])
                                   <= Rank(children[j].d.file.parts[depth])
                        /\ (~IsFile(children[i]) /\ ~IsFile(children[j])) =>
                               Rank(children[i].d.file.parts[depth])
                                   <= Rank(children[j].d.file.parts[depth])

\* C10: the title of every node of a generated TOC, anchors and child files
\* alike, is derived with the split character given to build_toc: its
\* occurrences are the ones replaced by spaces, also when it is not "_".
C10_TitlesUseSplitChar ==
    (Scanned /\ structure.t = "dict") =>
        \A n \in 1..Len(Preorder(structure)) :
            LET node == Preorder(structure)[n]
                path == parent(node.d.file)
                files == Qualifying(DirAt(fs, path))
                folder == [name |-> IF Len(path) = 0 THEN RootName ELSE path[Len(path)],
                           exts |-> <<>>]
            IN  \E k \in 1..Len(files) :
                    /\ FileOf(path, files[k]) = node.d.file
                    /\ node.d.title =
                           IF IsIndexFile(files[k])
                           THEN filename_to_title(folder, split_char)
                           ELSE filename_to_title(
                                    [name |-> files[k].name,
                                     exts |-> with_suffix(EntryPath(path, files[k])).exts],
                                    split_char)

====
